---- MODULE Spec2Model ----
(***************************************************************************)
(* A model of predict_imt.py: the weighted loss, the single-sample and the *)
(* full-dataframe predictors, the batch diagnostic printer and the         *)
(* training orchestrator train_imt_predictor.                              *)
(*                                                                         *)
(* Python strings are modelled as tuples of one-character strings, so that *)
(* str.replace, str.join and str.format are computed, not assumed.         *)
(* Floating-point values are modelled exactly: a cross-entropy term is an  *)
(* integer number of thousandths, a mean is the pair (sum, count).         *)
(***************************************************************************)
EXTENDS Integers, Sequences, FiniteSets, TLC

VARIABLES
    pc,               \* position of the function being run
    y_true,           \* weighted_bce: tensor of labels
    y_pred,           \* weighted_bce: tensor of predicted probabilities
    loss_value,       \* weighted_bce: the returned mean, <<>> before the call
    img_path,         \* nn_predict_imt: <<>> for None, <<path>> otherwise
    mask_path,        \* nn_predict_imt: <<>> for None, <<path>> otherwise
    nn_result,        \* nn_predict_imt: what a direct call returned or raised
    input_column,     \* name of the column(s) supplying the model input
    target_columns,   \* the target spec: an ordered mapping, as a sequence
    dataframe,        \* the dataset table: its columns and its rows
    model_inputs,     \* the batches handed to model.predict, in call order
    generator,        \* plot_predictions: the generator iterated
    loops_arg,        \* plot_predictions: the loops argument of the call
    loops,            \* plot_predictions: the local counted down
    errors,           \* plot_predictions: the list of per-example errors
    batches,          \* plot_predictions: batches taken from the generator
    printed,          \* plot_predictions: the mean printed, or the raise
    args,             \* train_imt_predictor: its arguments
    env,              \* what the run finds: config.FORCE_GPU, the device,
                      \* the checkpoint on disk, the sizes of the split
    raised,           \* the exception that ended the run, or "none"
    experiment_id,    \* locals of train_imt_predictor, <<>> while unset
    selected_columns,
    n_outputs,
    weights_path,
    log_dir,
    model_path,
    compile_args,     \* losses, loss_weights and metrics of model.compile
    steps,            \* TRAINING_STEPS and VALIDATION_STEPS
    model_weights,    \* the weights of the in-memory model
    ckpt_file,        \* the checkpoint file: <<>> when absent
    ckpt_io,          \* the reads and writes of the checkpoint file so far
    callbacks,        \* the state of ModelCheckpoint and EarlyStopping
    history,          \* the validation loss of each completed epoch
    effects,          \* the steps with an outside effect taken so far
    exported          \* the model file written by helpers.save_model

lossVars == <<y_true, y_pred, loss_value>>
predictVars == <<img_path, mask_path, nn_result, input_column, target_columns,
                 dataframe, model_inputs>>
plotVars == <<generator, loops_arg, loops, errors, batches, printed>>
otherVars == <<lossVars, img_path, mask_path, nn_result, dataframe,
               model_inputs, plotVars>>
runVars == <<args, env, raised, experiment_id, selected_columns, n_outputs,
             weights_path, log_dir, model_path, compile_args, steps,
             model_weights, ckpt_file, ckpt_io, callbacks, history, effects,
             exported>>
vars == <<pc, lossVars, predictVars, plotVars, runVars>>

\* The variables of a function that is not the one being run stay empty.
IdleLoss == y_true = <<>> /\ y_pred = <<>> /\ loss_value = <<>>

IdlePredict ==
    /\ img_path = <<>> /\ mask_path = <<>> /\ nn_result = <<>>
    /\ input_column = <<>> /\ target_columns = <<>>
    /\ dataframe = <<>> /\ model_inputs = <<>>

IdlePlot ==
    /\ generator = <<>> /\ loops_arg = 0 /\ loops = 0
    /\ errors = <<>> /\ batches = 0 /\ printed = <<>>

IdleRun ==
    /\ args = <<>> /\ env = <<>> /\ raised = "none"
    /\ experiment_id = <<>> /\ selected_columns = <<>> /\ n_outputs = 0
    /\ weights_path = <<>> /\ log_dir = <<>> /\ model_path = <<>>
    /\ compile_args = <<>> /\ steps = <<>> /\ model_weights = <<>>
    /\ ckpt_file = <<>> /\ ckpt_io = <<>> /\ callbacks = <<>>
    /\ history = <<>> /\ effects = <<>> /\ exported = <<>>

-----------------------------------------------------------------------------
(* Bounds of the model *)

MaxLen == 2           \* longest label/prediction tensor
MaxTargets == 3       \* most entries of a target spec
MaxRows == 2          \* most rows of a dataset table
MaxBatches == 3       \* batches of a generator the model follows
MaxBatchSize == 2     \* largest batch size of a generator
MaxLoops == 3         \* largest loops argument
MaxEpochs == 3        \* largest epochs argument
MaxPatience == 2      \* largest early_stopping_patience argument
MaxLoss == 3          \* validation losses are 1..MaxLoss
MaxSamples == 5       \* most samples of a training or validation subset

-----------------------------------------------------------------------------
(* Generic helpers *)

RECURSIVE SumSeq(_)
SumSeq(s) == IF s = <<>> THEN 0 ELSE Head(s) + SumSeq(Tail(s))

SeqsUpTo(S, n) == UNION {[1..k -> S] : k \in 0..n}

-----------------------------------------------------------------------------
(* String literals of predict_imt.py *)

S_imt_         == <<"i", "m", "t", "_">>
S_underscore   == <<"_">>
S_gt_          == <<"g", "t", "_">>
S_predicted_   == <<"p", "r", "e", "d", "i", "c", "t", "e", "d", "_">>
S_nn_prediction ==
    <<"n", "n", "_", "p", "r", "e", "d", "i", "c", "t", "i", "o", "n">>
S_complete_path ==
    <<"c", "o", "m", "p", "l", "e", "t", "e", "_", "p", "a", "t", "h">>
S_mask_path    == <<"m", "a", "s", "k", "_", "p", "a", "t", "h">>
S_img          == <<"i", "m", "g">>
S_mask         == <<"m", "a", "s", "k">>
S_img_and_mask == <<"i", "m", "g", "_", "a", "n", "d", "_", "m", "a", "s", "k">>
S_plaque       == <<"p", "l", "a", "q", "u", "e">>

\* Target names the inputs are drawn from: the two IMT measurements and the
\* plaque label of the dataset table, and a carotid-IMT column whose name
\* holds "imt_" after its first character.
S_imt_max      == <<"i", "m", "t", "_", "m", "a", "x">>
S_imt_avg      == <<"i", "m", "t", "_", "a", "v", "g">>
S_cimt_max     == <<"c", "i", "m", "t", "_", "m", "a", "x">>

TargetNames == {S_imt_max, S_imt_avg, S_plaque, S_cimt_max}

-----------------------------------------------------------------------------
(* The target spec: {name: {'predict': bool, 'loss': ..., 'weight': ...}}, *)
(* a Python dict, which keeps its keys distinct and in insertion order.    *)

\* The loss and the weight (in tenths) configured for a target name.
LossOf(name) ==
    CASE name = S_imt_max  -> "mse"
      [] name = S_imt_avg  -> "mae"
      [] name = S_plaque   -> "weighted_bce"
      [] OTHER             -> "huber"

WeightOf(name) ==
    CASE name = S_imt_max  -> 10
      [] name = S_imt_avg  -> 8
      [] name = S_plaque   -> 5
      [] OTHER             -> 3

Target(name, predict) ==
    [key |-> name,
     value |-> [predict |-> predict, loss |-> LossOf(name),
                weight |-> WeightOf(name)]]

DistinctKeys(tc) ==
    \A i, j \in DOMAIN tc : tc[i].key = tc[j].key => i = j

TargetSpecs ==
    {tc \in SeqsUpTo({Target(n, p) : n \in TargetNames, p \in BOOLEAN},
                     MaxTargets) : Len(tc) >= 1 /\ DistinctKeys(tc)}

\* [key for key, value in target_columns.items() if value['predict']]
RECURSIVE EnabledKeys(_)
EnabledKeys(tc) ==
    IF tc = <<>> THEN <<>>
    ELSE IF Head(tc).value.predict
         THEN <<Head(tc).key>> \o EnabledKeys(Tail(tc))
         ELSE EnabledKeys(Tail(tc))

-----------------------------------------------------------------------------
(* nn_predict_imt, predict_imt.py lines 36-64 *)

\* The image files on disk: a path names a grayscale image, here its level.
Files == [img_a |-> 0, img_b |-> 255, mask_a |-> 51, mask_b |-> 204]

ImagePaths == {"img_a", "img_b"}
MaskPaths == {"mask_a", "mask_b"}

InputShape == <<512, 512>>

\* cv2.imread(path, cv2.IMREAD_GRAYSCALE) / 255. followed by
\* cv2.resize(., input_shape): a single-channel array of the input shape
\* whose levels are the file's over 255.
ReadImage(path, input_shape) ==
    [shape |-> input_shape,
     channels |-> <<[num |-> Files[path], den |-> 255]>>]

\* np.dstack((a, b)) of two 2-D arrays: a on channel 0, b on channel 1
dstack(a, b) ==
    [shape |-> a.shape \o <<2>>, channels |-> a.channels \o b.channels]

\* np.expand_dims(x, axis=0): a batch holding the one example x
expand_dims(x) == <<x>>

\* input_data as lines 46-55 leave it: <<>> when it was never bound
InputData(ip, mp, input_shape) ==
    LET after_img == IF ip # <<>> THEN <<ReadImage(ip[1], input_shape)>>
                     ELSE <<>>
        after_mask == IF mp # <<>> THEN <<ReadImage(mp[1], input_shape)>>
                      ELSE after_img
    IN  IF ip # <<>> /\ mp # <<>>
        THEN <<dstack(ReadImage(ip[1], input_shape),
                      ReadImage(mp[1], input_shape))>>
        ELSE after_mask

\* The output of head h (counted from 0) of the model on one example.
HeadOutput(h, example) == [head |-> h, of |-> example]

\* model.predict(batch): a model with one head returns that head's array,
\* indexed by example; a model with several returns the list of the heads'
\* arrays.
ModelPredict(n_heads, batch) ==
    IF n_heads = 1
    THEN [b \in DOMAIN batch |-> HeadOutput(0, batch[b])]
    ELSE [h \in 1..n_heads |->
              [b \in DOMAIN batch |-> HeadOutput(h - 1, batch[b])]]

SqueezedHead_first(prediction, n_heads, count) ==
    IF n_heads = 1 THEN prediction[1] ELSE prediction[1][1]

\* np.squeeze(prediction[count]) for a batch of one example
SqueezedHead(prediction, n_heads, count) ==
    IF n_heads = 1 THEN prediction[count + 1] ELSE prediction[count + 1][1]

\* lines 58-63: the loop over target_columns.items(), from entry i on
RECURSIVE UnpackHeads(_, _, _, _, _, _)
UnpackHeads(tc, i, count, result, prediction, n_heads) ==
    IF i > Len(tc) THEN result
    ELSE IF tc[i].value.predict
         THEN UnpackHeads(tc, i + 1, count + 1,
                  [k \in DOMAIN result \cup {tc[i].key} |->
                      IF k = tc[i].key
                      THEN SqueezedHead(prediction, n_heads, count)
                      ELSE result[k]],
                  prediction, n_heads)
         ELSE UnpackHeads(tc, i + 1, count, result, prediction, n_heads)

EmptyDict == [k \in {} |-> 0]

\* The model handed to the predictors has one head per enabled target.
ModelHeads(tc) == Len(EnabledKeys(tc))

nn_predict_imt(ip, mp, input_shape, tc) ==
    LET input_data == InputData(ip, mp, input_shape)
    IN  IF input_data = <<>>
        THEN [raised |-> "UnboundLocalError", fed |-> <<>>,
              result |-> EmptyDict]
        ELSE LET batch == expand_dims(input_data[1])
                 prediction == ModelPredict(ModelHeads(tc), batch)
             IN  [raised |-> "none", fed |-> <<batch>>,
                  result |-> UnpackHeads(tc, 1, 0, EmptyDict, prediction,
                                         ModelHeads(tc))]

-----------------------------------------------------------------------------
(* predict_complete_dataframe, predict_imt.py lines 99-125 *)

\* lines 115-116
RowImgPath(ic, row) ==
    IF ic = S_mask_path THEN <<>> ELSE <<row[S_complete_path]>>

RowMaskPath_same_test(ic, row) ==
    IF ic = S_mask_path THEN <<>> ELSE <<row[S_mask_path]>>

RowMaskPath(ic, row) ==
    IF ic = S_complete_path THEN <<>> ELSE <<row[S_mask_path]>>

RowPrediction(ic, row, input_shape, tc) ==
    nn_predict_imt(RowImgPath(ic, row), RowMaskPath(ic, row), input_shape, tc)

\* dataframe[name] = values: the column is added, or overwritten
SetColumn(df, name, values) ==
    [columns |-> df.columns \cup {name},
     rows |-> [r \in DOMAIN df.rows |->
                  [c \in DOMAIN df.rows[r] \cup {name} |->
                      IF c = name THEN values[r] ELSE df.rows[r][c]]]]

\* lines 121-124: the loop over target_columns.items(), from entry i on
RECURSIVE AttachPredicted(_, _, _)
AttachPredicted(df, tc, i) ==
    IF i > Len(tc) THEN df
    ELSE IF tc[i].value.predict
         THEN AttachPredicted(
                  SetColumn(df, S_predicted_ \o tc[i].key,
                      [r \in DOMAIN df.rows |->
                          df.rows[r][S_nn_prediction][tc[i].key]]),
                  tc, i + 1)
         ELSE AttachPredicted(df, tc, i + 1)

predict_complete_dataframe(df, ic, tc, input_shape) ==
    LET calls == [r \in DOMAIN df.rows |->
                     RowPrediction(ic, df.rows[r], input_shape, tc)]
    IN  IF \E r \in DOMAIN calls : calls[r].raised # "none"
        THEN [raised |-> "UnboundLocalError", dataframe |-> df,
              fed |-> <<>>]
        ELSE [raised |-> "none",
              dataframe |->
                  AttachPredicted(
                      SetColumn(df, S_nn_prediction,
                                [r \in DOMAIN calls |-> calls[r].result]),
                      tc, 1),
              fed |-> [r \in DOMAIN calls |-> calls[r].fed[1]]]

\* A row of the dataset table as the orchestrator hands it over: both path
\* columns are filled.
TableRows ==
    {[c \in {S_complete_path, S_mask_path} |->
         IF c = S_complete_path THEN i ELSE m] :
         i \in ImagePaths, m \in MaskPaths}

Tables ==
    {[columns |-> {S_complete_path, S_mask_path}, rows |-> rs] :
        rs \in SeqsUpTo(TableRows, MaxRows)}

InputColumns == {S_complete_path, S_mask_path, S_img_and_mask, S_img}

OptionalPaths(S) == {<<>>} \cup {<<p>> : p \in S}

\* Either entry point is called once, on inputs drawn from the sets above.
InitPredict ==
    /\ target_columns \in TargetSpecs
    /\ nn_result = <<>> /\ model_inputs = <<>>
    /\ \/ /\ pc = "nn_predict_imt"
          /\ img_path \in OptionalPaths(ImagePaths)
          /\ mask_path \in OptionalPaths(MaskPaths)
          /\ input_column = <<>> /\ dataframe = <<>>
       \/ /\ pc = "predict_complete_dataframe"
          /\ input_column \in InputColumns
          /\ dataframe \in Tables
          /\ img_path = <<>> /\ mask_path = <<>>
    /\ IdleLoss /\ IdlePlot /\ IdleRun

CallNnPredictImt ==
    /\ pc = "nn_predict_imt"
    /\ LET call == nn_predict_imt(img_path, mask_path, InputShape,
                                  target_columns)
       IN  /\ nn_result' = <<[raised |-> call.raised, result |-> call.result]>>
           /\ model_inputs' = call.fed
    /\ pc' = "returned"
    /\ UNCHANGED <<img_path, mask_path, input_column, target_columns,
                   dataframe, lossVars, plotVars, runVars>>

CallPredictCompleteDataframe ==
    /\ pc = "predict_complete_dataframe"
    /\ LET call == predict_complete_dataframe(dataframe, input_column,
                                              target_columns, InputShape)
       IN  /\ nn_result' = <<[raised |-> call.raised, result |-> EmptyDict]>>
           /\ dataframe' = call.dataframe
           /\ model_inputs' = call.fed
    /\ pc' = "dataframe_returned"
    /\ UNCHANGED <<img_path, mask_path, input_column, target_columns,
                   lossVars, plotVars, runVars>>

NextPredict == CallNnPredictImt \/ CallPredictCompleteDataframe

SpecPredict == InitPredict /\ [][NextPredict]_vars

-----------------------------------------------------------------------------
(* Properties of the predictors *)

EnabledPositions == {i \in DOMAIN target_columns :
                        target_columns[i].value.predict}

\* how many enabled targets are declared before entry i
Rank(i) == Cardinality({j \in EnabledPositions : j < i})

EnabledNames == {target_columns[i].key : i \in EnabledPositions}

StartsWith(s, prefix) ==
    Len(s) >= Len(prefix) /\ SubSeq(s, 1, Len(prefix)) = prefix

PredictedColumns == {c \in dataframe.columns : StartsWith(c, S_predicted_)}

\* C4: nn_predict_imt returns a mapping whose keys are exactly the enabled
\* target names, the i-th enabled target in declaration order mapped to
\* the output of head i; predict_complete_dataframe adds exactly one
\* predicted_<name> column per enabled target, none for a disabled one,
\* each row holding that row's output of the corresponding head.
C4_HeadsInDeclarationOrder ==
    /\ (pc = "returned" /\ nn_result[1].raised = "none") =>
          /\ DOMAIN nn_result[1].result = EnabledNames
          /\ \A i \in EnabledPositions :
                nn_result[1].result[target_columns[i].key]
                    = HeadOutput(Rank(i), model_inputs[1][1])
    /\ pc = "dataframe_returned" =>
          /\ PredictedColumns = {S_predicted_ \o n : n \in EnabledNames}
          /\ Cardinality(PredictedColumns) = Cardinality(EnabledPositions)
          /\ dataframe.columns \ PredictedColumns
                = {S_complete_path, S_mask_path, S_nn_prediction}
          /\ \A r \in DOMAIN dataframe.rows : \A i \in EnabledPositions :
                dataframe.rows[r][S_predicted_ \o target_columns[i].key]
                    = HeadOutput(Rank(i), model_inputs[r][1])

\* a table of two rows predicted with two enabled targets declared after
\* and around a disabled one
C4_Witness ==
    /\ pc = "dataframe_returned"
    /\ Len(dataframe.rows) = 2
    /\ Len(target_columns) = 3
    /\ EnabledPositions = {1, 3}
    /\ Cardinality(PredictedColumns) = 2

\* the example lines 46-55 are to build for a row under an input column
ExpectedExample(row) ==
    LET img == [num |-> Files[row[S_complete_path]], den |-> 255]
        msk == [num |-> Files[row[S_mask_path]], den |-> 255]
    IN  CASE input_column = S_complete_path ->
                 [shape |-> InputShape, channels |-> <<img>>]
          [] input_column = S_mask_path ->
                 [shape |-> InputShape, channels |-> <<msk>>]
          [] OTHER ->
                 [shape |-> InputShape \o <<2>>, channels |-> <<img, msk>>]

\* C8: for every row and input column predict_complete_dataframe hands
\* nn_predict_imt at least one path, and the model is fed a batch of one
\* example: the image alone, the mask alone, or the image on channel 0
\* stacked with the mask on channel 1; the input is left unbound only by a
\* direct call with neither path.
C8_InputNeverUnbound ==
    /\ pc = "dataframe_returned" =>
          /\ nn_result[1].raised = "none"
          /\ Len(model_inputs) = Len(dataframe.rows)
          /\ \A r \in DOMAIN dataframe.rows :
                model_inputs[r] = <<ExpectedExample(dataframe.rows[r])>>
    /\ pc = "returned" =>
          (nn_result[1].raised = "UnboundLocalError"
              <=> (img_path = <<>> /\ mask_path = <<>>))

\* a row predicted from both its image and its mask, of different levels
C8_Witness ==
    /\ pc = "dataframe_returned"
    /\ input_column = S_img_and_mask
    /\ Len(dataframe.rows) >= 1
    /\ Len(model_inputs[1][1].channels) = 2
    /\ model_inputs[1][1].channels[1] # model_inputs[1][1].channels[2]

-----------------------------------------------------------------------------
(* weighted_bce, predict_imt.py lines 23-33 *)

\* -log(p) in thousandths for p = 0, 1/4, 1/2, 3/4, 1 after the clipping of
\* keras_backend.binary_crossentropy (p is clipped to [1e-7, 1 - 1e-7] and
\* 1e-7 is added inside the logarithm): -log(2e-7) = 15.425, -log(1) = 0.
NegLogMilli == <<15425, 1386, 693, 288, 0>>

\* A probability is an index of the table: k stands for (k - 1) / 4.
Probabilities == DOMAIN NegLogMilli

OneMinus(p) == Len(NegLogMilli) + 1 - p

\* keras_backend.binary_crossentropy on one element:
\* -(y * log(p) + (1 - y) * log(1 - p))
binary_crossentropy(y, p) ==
    y * NegLogMilli[p] + (1 - y) * NegLogMilli[OneMinus(p)]

\* keras_backend.mean of a tensor: the sum over the number of elements
mean(t) == [sum |-> SumSeq(t), count |-> Len(t)]

weighted_bce_no_offset(yt, yp) ==
    LET weights == [i \in DOMAIN yt |-> yt[i] * 10]
        bce     == [i \in DOMAIN yt |-> binary_crossentropy(yt[i], yp[i])]
    IN  mean([i \in DOMAIN yt |-> bce[i] * weights[i]])

weighted_bce(yt, yp) ==
    LET weights == [i \in DOMAIN yt |-> (yt[i] * 10) + 1]
        bce     == [i \in DOMAIN yt |-> binary_crossentropy(yt[i], yp[i])]
    IN  mean([i \in DOMAIN yt |-> bce[i] * weights[i]])

InitLoss ==
    /\ pc = "weighted_bce"
    /\ \E n \in 1..MaxLen :
          /\ y_true \in [1..n -> {0, 1}]
          /\ y_pred \in [1..n -> Probabilities]
    /\ loss_value = <<>>
    /\ IdlePredict /\ IdlePlot /\ IdleRun

CallWeightedBce ==
    /\ pc = "weighted_bce"
    /\ loss_value' = <<weighted_bce(y_true, y_pred)>>
    /\ pc' = "loss_returned"
    /\ UNCHANGED <<y_true, y_pred, predictVars, plotVars, runVars>>

NextLoss == CallWeightedBce

SpecLoss == InitLoss /\ [][NextLoss]_vars

\* the unweighted cross-entropy term of element i of the call
UnweightedTerm(i) == binary_crossentropy(y_true[i], y_pred[i])

Contribution(i) ==
    IF y_true[i] = 1 THEN 11 * UnweightedTerm(i) ELSE 1 * UnweightedTerm(i)

\* C3: the returned loss is the mean over all elements of the unweighted
\* cross-entropy term times 11 for a label-1 element and times 1 for a
\* label-0 element.
C3_WeightedBceIsElevenToOne ==
    pc = "loss_returned" =>
        /\ loss_value[1].count = Len(y_true)
        /\ loss_value[1].sum =
              SumSeq([i \in DOMAIN y_true |-> Contribution(i)])

\* a returned loss over a tensor holding both labels with the same
\* predicted probability, each with a non-zero cross-entropy term
C3_Witness ==
    /\ pc = "loss_returned"
    /\ Len(y_true) = 2
    /\ y_true[1] = 1 /\ y_true[2] = 0
    /\ y_pred[1] = y_pred[2]
    /\ UnweightedTerm(1) > 0 /\ UnweightedTerm(2) > 0

-----------------------------------------------------------------------------
(* plot_predictions, predict_imt.py lines 67-96 *)

\* The per-example error gt - pred, abstracted to its sign.
ErrorValues == {-1, 1}

\* A generator yields `length` batches and is then exhausted; the Keras
\* data generators never are: `endless`.
Generators ==
    {[endless |-> e, length |-> n, batch_size |-> b] :
        e \in BOOLEAN, n \in 0..MaxBatches, b \in 1..MaxBatchSize}

HasNext(g, n_consumed) == g.endless \/ n_consumed < g.length

InitPlot ==
    /\ pc = "plot_for"
    /\ generator \in Generators
    /\ loops_arg \in 0..MaxLoops
    /\ loops = loops_arg
    /\ errors = <<>>
    /\ batches = 0
    /\ printed = <<>>
    /\ IdleLoss /\ IdlePredict /\ IdleRun

\* lines 76-95: one pass of the for loop over the generator. The model
\* follows an endless generator for MaxBatches batches.
PlotBatch ==
    /\ pc = "plot_for"
    /\ HasNext(generator, batches)
    /\ batches < MaxBatches
    /\ batches' = batches + 1
    /\ \E batch_errors \in [1..generator.batch_size -> ErrorValues] :
          errors' = errors \o batch_errors
    /\ loops' = loops - 1
    /\ pc' = IF loops' = 0 THEN "plot_print" ELSE "plot_for"
    /\ UNCHANGED <<generator, loops_arg, printed, lossVars, predictVars,
                   runVars>>

\* line 76: the generator is exhausted and the for loop ends
PlotExhausted ==
    /\ pc = "plot_for"
    /\ ~HasNext(generator, batches)
    /\ pc' = "plot_print"
    /\ UNCHANGED <<generator, loops_arg, loops, errors, batches, printed,
                   lossVars, predictVars, runVars>>

\* line 96: sum(errors) / len(errors)
PlotPrintMean ==
    /\ pc = "plot_print"
    /\ IF errors = <<>>
       THEN printed' = <<[raised |-> "ZeroDivisionError", mean |-> mean(<<>>)]>>
       ELSE printed' = <<[raised |-> "none", mean |-> mean(errors)]>>
    /\ pc' = "plot_returned"
    /\ UNCHANGED <<generator, loops_arg, loops, errors, batches, lossVars,
                   predictVars, runVars>>

NextPlot == PlotBatch \/ PlotExhausted \/ PlotPrintMean

SpecPlot == InitPlot /\ [][NextPlot]_vars

\* C9: plot_predictions consumes exactly `loops` batches, then stops and
\* prints the mean error, for every loops >= 0 and every generator that
\* can supply them, the endless ones included.
C9_ConsumesExactlyLoops ==
    (generator.endless \/ generator.length >= loops_arg) =>
        /\ batches <= loops_arg
        /\ pc \in {"plot_print", "plot_returned"} => batches = loops_arg

-----------------------------------------------------------------------------
(* Python string operations used by train_imt_predictor *)

\* s.replace(old, ''): every occurrence of old, left to right, is removed
RECURSIVE Remove(_, _)
Remove(s, old) ==
    IF Len(s) < Len(old) THEN s
    ELSE IF SubSeq(s, 1, Len(old)) = old
         THEN Remove(SubSeq(s, Len(old) + 1, Len(s)), old)
         ELSE <<Head(s)>> \o Remove(Tail(s), old)

\* sep.join(parts)
RECURSIVE Join(_, _)
Join(sep, parts) ==
    IF parts = <<>> THEN <<>>
    ELSE IF Len(parts) = 1 THEN Head(parts)
         ELSE Head(parts) \o sep \o Join(sep, Tail(parts))

Digits == <<"0", "1", "2", "3", "4", "5", "6", "7", "8", "9">>

\* '{}'.format(n) for an integer n >= 0
RECURSIVE IntToStr(_)
IntToStr(n) ==
    IF n < 10 THEN <<Digits[n + 1]>>
    ELSE IntToStr(n \div 10) \o <<Digits[(n % 10) + 1]>>

S_exp          == <<"e", "x", "p">>
S_CCA          == <<"C", "C", "A">>
S_BULB         == <<"B", "U", "L", "B">>
S_rgb          == <<"r", "g", "b">>
S_h5           == <<".", "h", "5">>
S_weights_     == <<"c", "h", "e", "c", "k", "p", "o", "i", "n", "t", "s", "/",
                    "w", "e", "i", "g", "h", "t", "s", "_">>
S_run_         == <<"l", "o", "g", "s", "/", "r", "u", "n", "_">>
S_model_       == <<"m", "o", "d", "e", "l", "s", "/",
                    "m", "o", "d", "e", "l", "_">>

-----------------------------------------------------------------------------
(* train_imt_predictor, predict_imt.py lines 128-310 *)

\* line 167
OutputId(tc) ==
    Join(S_underscore,
         [i \in DOMAIN EnabledKeys(tc) |-> Remove(EnabledKeys(tc)[i], S_imt_)])

\* line 168
ExperimentId(prefix, database, input_type, resolution, tc) ==
    prefix \o S_underscore \o database \o S_underscore \o input_type
        \o S_underscore \o IntToStr(resolution) \o S_underscore \o OutputId(tc)

\* lines 227, 270, 299
WeightsPath(id) == S_weights_ \o id \o S_h5
LogDir(id) == S_run_ \o id \o S_h5
ModelPath(id) == S_model_ \o id \o S_h5

\* line 213
SelectedColumns(tc) ==
    [i \in DOMAIN EnabledKeys(tc) |-> S_gt_ \o EnabledKeys(tc)[i]]

\* lines 235-244 with the plaque test moved out of the predict test
RECURSIVE CompileArgs_plaque_always(_, _, _)
CompileArgs_plaque_always(tc, i, acc) ==
    IF i > Len(tc) THEN acc
    ELSE LET with_metrics ==
                 IF tc[i].key = S_plaque
                 THEN [acc EXCEPT !.metrics =
                          [k \in {S_plaque} |-> <<"Recall(recall)", "accuracy">>]]
                 ELSE acc
         IN  IF tc[i].value.predict
             THEN CompileArgs_plaque_always(tc, i + 1,
                      [with_metrics EXCEPT
                          !.losses = Append(@, tc[i].value.loss),
                          !.loss_weights = Append(@, tc[i].value.weight)])
             ELSE CompileArgs_plaque_always(tc, i + 1, with_metrics)

\* lines 235-244: the loop over target_columns.items(), from entry i on
RECURSIVE CompileArgs(_, _, _)
CompileArgs(tc, i, acc) ==
    IF i > Len(tc) THEN acc
    ELSE IF tc[i].value.predict
         THEN LET with_metrics ==
                      IF tc[i].key = S_plaque
                      THEN [acc EXCEPT !.metrics =
                               [k \in {S_plaque} |->
                                   <<"Recall(recall)", "accuracy">>]]
                      ELSE acc
              IN  CompileArgs(tc, i + 1,
                      [with_metrics EXCEPT
                          !.losses = Append(@, tc[i].value.loss),
                          !.loss_weights = Append(@, tc[i].value.weight)])
         ELSE CompileArgs(tc, i + 1, acc)

NoCompileArgs == [losses |-> <<>>, loss_weights |-> <<>>, metrics |-> EmptyDict]

StepsFor_rounded_up(n, batch_size) == (n + batch_size - 1) \div batch_size

\* lines 280-281: generator.n // generator.batch_size
StepsFor(n, batch_size) == n \div batch_size

ValidInputTypes == {S_img, S_mask, S_img_and_mask}
InputTypes == ValidInputTypes \cup {S_rgb}

GpuDevice == "/device:GPU:0"

\* model weights: those of the factory's fresh model, those of a checkpoint
\* left by an earlier run, or those after an epoch of this run's fit
FactoryWeights == [origin |-> "factory", epoch |-> 0]
OldCheckpoint == [origin |-> "earlier_run", epoch |-> 0]
EpochWeights(e) == [origin |-> "epoch", epoch |-> e]

\* monitor_op of ModelCheckpoint(save_best_only=True, monitor='val_loss')
\* and of EarlyStopping(monitor='val_loss'): np.less against a best that
\* starts at infinity, here <<>>
CheckpointSaves_always(current, best) == TRUE

CheckpointSaves(current, best) == best = <<>> \/ current < best[1]

EarlyStoppingImproved(current, best) == best = <<>> \/ current < best[1]

NoCallbacks ==
    [ckpt_best |-> <<>>, es_best |-> <<>>, es_wait |-> 0,
     stop_training |-> FALSE]

\* The filesystem and the environment a run starts in; the arguments of a
\* call, with the epochs drawn from ns, the batch size from bs and the
\* patience from ps.
Environments(sample_counts) ==
    {[force_gpu |-> f, device_name |-> d, checkpoint |-> c,
      n_train |-> nt, n_valid |-> nv] :
        f \in BOOLEAN, d \in {"", GpuDevice},
        c \in {<<>>, <<OldCheckpoint>>},
        nt \in sample_counts, nv \in sample_counts}

Arguments(prefixes, databases, types, resolutions, flags, ns, bs, ps) ==
    {[prefix |-> p, database |-> d, input_type |-> t, input_shape |-> <<r, r>>,
      train |-> tr, resume_training |-> re, debug |-> db, silent_mode |-> si,
      epochs |-> e, batch_size |-> b, early_stopping_patience |-> pa] :
        p \in prefixes, d \in databases, t \in types, r \in resolutions,
        tr \in flags, re \in flags, db \in flags, si \in flags,
        e \in ns, b \in bs, pa \in ps}

\* The target spec of the documented example run.
DefaultTargets == <<Target(S_imt_max, TRUE), Target(S_plaque, TRUE)>>

\* What a run starts from, whatever its arguments.
InitRun ==
    /\ pc = "configure"
    /\ raised = "none"
    /\ experiment_id = <<>>
    /\ input_column = <<>>
    /\ selected_columns = <<>>
    /\ n_outputs = 0
    /\ weights_path = <<>> /\ log_dir = <<>> /\ model_path = <<>>
    /\ compile_args = NoCompileArgs
    /\ steps = <<>>
    /\ model_weights = <<>>
    /\ ckpt_file = env.checkpoint
    /\ ckpt_io = <<>>
    /\ callbacks = NoCallbacks
    /\ history = <<>>
    /\ effects = <<>>
    /\ exported = <<>>
    /\ img_path = <<>> /\ mask_path = <<>> /\ nn_result = <<>>
    /\ dataframe = <<>> /\ model_inputs = <<>>
    /\ IdleLoss /\ IdlePlot

\* Runs that differ in the device, the flags, the number of epochs and the
\* patience, on the documented example configuration.
Init ==
    /\ target_columns = DefaultTargets
    /\ args \in Arguments({S_exp}, {S_CCA}, InputTypes, {512}, BOOLEAN,
                          0..MaxEpochs, {4}, 0..MaxPatience)
    /\ env \in Environments({9})
    /\ InitRun

\* Runs that differ in the target spec, the database, the input type and
\* the resolution.
InitConfig ==
    /\ target_columns \in TargetSpecs
    /\ args \in Arguments({S_exp}, {S_CCA, S_BULB}, InputTypes, {64, 512},
                          {TRUE}, {1}, {4}, {1})
    /\ env \in Environments({9})
    /\ env.force_gpu /\ env.checkpoint # <<>>
    /\ InitRun

\* Runs that differ in the sizes of the training and validation subsets and
\* in the batch size.
InitSteps ==
    /\ target_columns = DefaultTargets
    /\ args \in Arguments({S_exp}, {S_CCA}, {S_img}, {512}, BOOLEAN, {1},
                          1..MaxBatchSize, {1})
    /\ env \in Environments(0..MaxSamples)
    /\ ~env.force_gpu /\ env.device_name = GpuDevice /\ env.checkpoint = <<>>
    /\ args.resume_training /\ ~args.debug /\ args.silent_mode
    /\ InitRun

StaticRun == <<args, env, target_columns>>

\* lines 166-192: the experiment id, the seeds, the table loaded and filtered
Configure ==
    /\ pc = "configure"
    /\ experiment_id' = ExperimentId(args.prefix, args.database,
                            args.input_type, args.input_shape[1],
                            target_columns)
    /\ effects' = Append(effects, "load_data")
    /\ pc' = "validate_device"
    /\ UNCHANGED <<raised, input_column, selected_columns, n_outputs,
                   weights_path, log_dir, model_path, compile_args, steps,
                   model_weights, ckpt_file, ckpt_io, callbacks, history,
                   exported, StaticRun, otherVars>>

\* lines 194-199
ValidateDevice_unchecked ==
    /\ pc = "validate_device"
    /\ pc' = "resolve_input"
    /\ UNCHANGED <<raised, experiment_id, input_column, selected_columns,
                   n_outputs, weights_path, log_dir, model_path, compile_args,
                   steps, model_weights, ckpt_file, ckpt_io, callbacks,
                   history, effects, exported, StaticRun, otherVars>>

ValidateDevice ==
    /\ pc = "validate_device"
    /\ IF env.force_gpu /\ env.device_name # GpuDevice
       THEN raised' = "SystemError" /\ pc' = "failed"
       ELSE raised' = raised /\ pc' = "resolve_input"
    /\ UNCHANGED <<experiment_id, input_column, selected_columns, n_outputs,
                   weights_path, log_dir, model_path, compile_args, steps,
                   model_weights, ckpt_file, ckpt_io, callbacks, history,
                   effects, exported, StaticRun, otherVars>>

\* lines 201-208
ResolveInput ==
    /\ pc = "resolve_input"
    /\ IF args.input_type = S_img
       THEN input_column' = S_complete_path /\ raised' = raised
                /\ pc' = "shuffle_split"
       ELSE IF args.input_type = S_mask
       THEN input_column' = S_mask_path /\ raised' = raised
                /\ pc' = "shuffle_split"
       ELSE IF args.input_type = S_img_and_mask
       THEN input_column' = args.input_type /\ raised' = raised
                /\ pc' = "shuffle_split"
       ELSE input_column' = input_column /\ raised' = "NotImplementedError"
                /\ pc' = "failed"
    /\ UNCHANGED <<experiment_id, selected_columns, n_outputs, weights_path,
                   log_dir, model_path, compile_args, steps, model_weights,
                   ckpt_file, ckpt_io, callbacks, history, effects, exported,
                   StaticRun, otherVars>>

\* lines 210-224: the shuffle, the target columns, the split
ShuffleSplit ==
    /\ pc = "shuffle_split"
    /\ selected_columns' = SelectedColumns(target_columns)
    /\ n_outputs' = Len(selected_columns')
    /\ effects' = effects \o <<"shuffle", "split">>
    /\ pc' = "build_model"
    /\ UNCHANGED <<raised, experiment_id, input_column, weights_path, log_dir,
                   model_path, compile_args, steps, model_weights, ckpt_file,
                   ckpt_io, callbacks, history, exported, StaticRun,
                   otherVars>>

\* lines 225-230: the model from the factory, warm-started from the
\* checkpoint when resuming and the file exists
BuildModel ==
    /\ pc = "build_model"
    /\ weights_path' = WeightsPath(experiment_id)
    /\ IF args.resume_training /\ ckpt_file # <<>>
       THEN /\ model_weights' = <<ckpt_file[1]>>
            /\ ckpt_io' = Append(ckpt_io,
                              [op |-> "read", at |-> pc, epoch |-> 0])
       ELSE /\ model_weights' = <<FactoryWeights>>
            /\ ckpt_io' = ckpt_io
    /\ effects' = Append(effects, "build_model")
    /\ pc' = "compile"
    /\ UNCHANGED <<raised, experiment_id, input_column, selected_columns,
                   n_outputs, log_dir, model_path, compile_args, steps,
                   ckpt_file, callbacks, history, exported, StaticRun,
                   otherVars>>

\* lines 232-246
Compile ==
    /\ pc = "compile"
    /\ compile_args' = CompileArgs(target_columns, 1, NoCompileArgs)
    /\ effects' = Append(effects, "compile")
    /\ pc' = "generators"
    /\ UNCHANGED <<raised, experiment_id, input_column, selected_columns,
                   n_outputs, weights_path, log_dir, model_path, steps,
                   model_weights, ckpt_file, ckpt_io, callbacks, history,
                   exported, StaticRun, otherVars>>

\* lines 249-265: the three generators, the debug output, the checkpoint
\* directory
Generate ==
    /\ pc = "generators"
    /\ effects' = effects \o <<"generators">>
                      \o (IF args.debug THEN <<"test_generator_output">>
                          ELSE <<>>)
                      \o <<"makedirs">>
    /\ pc' = IF args.train THEN "fit_begin" ELSE "load_best"
    /\ UNCHANGED <<raised, experiment_id, input_column, selected_columns,
                   n_outputs, weights_path, log_dir, model_path, compile_args,
                   steps, model_weights, ckpt_file, ckpt_io, callbacks,
                   history, exported, StaticRun, otherVars>>

\* lines 267-284: the callbacks are constructed, the steps computed, fit
\* starts
FitBegin ==
    /\ pc = "fit_begin"
    /\ callbacks' = NoCallbacks
    /\ log_dir' = LogDir(experiment_id)
    /\ steps' = <<[TRAINING_STEPS |-> StepsFor(env.n_train, args.batch_size),
                   VALIDATION_STEPS |-> StepsFor(env.n_valid, args.batch_size)]>>
    /\ effects' = Append(effects, "log")
    /\ pc' = "fit"
    /\ UNCHANGED <<raised, experiment_id, input_column, selected_columns,
                   n_outputs, weights_path, model_path, compile_args,
                   model_weights, ckpt_file, ckpt_io, history, exported,
                   StaticRun, otherVars>>

\* lines 284-292: one epoch of fit: the weights are trained, the validation
\* loss is measured, ModelCheckpoint and then EarlyStopping see it
FitEpoch ==
    /\ pc = "fit"
    /\ Len(history) < args.epochs
    /\ ~callbacks.stop_training
    /\ \E val_loss \in 1..MaxLoss :
          LET epoch == Len(history) + 1
              saves == CheckpointSaves(val_loss, callbacks.ckpt_best)
              improved == EarlyStoppingImproved(val_loss, callbacks.es_best)
              wait == IF improved THEN 0 ELSE callbacks.es_wait + 1
          IN  /\ history' = Append(history, val_loss)
              /\ model_weights' = <<EpochWeights(epoch)>>
              /\ ckpt_file' = IF saves THEN model_weights' ELSE ckpt_file
              /\ ckpt_io' = IF saves
                            THEN Append(ckpt_io, [op |-> "write", at |-> pc,
                                                  epoch |-> epoch])
                            ELSE ckpt_io
              /\ callbacks' =
                    [ckpt_best |-> IF saves THEN <<val_loss>>
                                   ELSE callbacks.ckpt_best,
                     es_best |-> IF improved THEN <<val_loss>>
                                 ELSE callbacks.es_best,
                     es_wait |-> wait,
                     stop_training |->
                         ~improved /\ wait >= args.early_stopping_patience]
    /\ UNCHANGED <<pc, raised, experiment_id, input_column, selected_columns,
                   n_outputs, weights_path, log_dir, model_path, compile_args,
                   steps, effects, exported, StaticRun, otherVars>>

\* lines 292-294: fit returns after the last epoch or an early stop
FitEnd ==
    /\ pc = "fit"
    /\ Len(history) >= args.epochs \/ callbacks.stop_training
    /\ effects' = IF args.silent_mode THEN effects
                  ELSE Append(effects, "plot_training_history")
    /\ pc' = "load_best"
    /\ UNCHANGED <<raised, experiment_id, input_column, selected_columns,
                   n_outputs, weights_path, log_dir, model_path, compile_args,
                   steps, model_weights, ckpt_file, ckpt_io, callbacks,
                   history, exported, StaticRun, otherVars>>

\* line 297 without the reload
LoadBest_kept_last ==
    /\ pc = "load_best"
    /\ ckpt_io' = Append(ckpt_io,
                      [op |-> "read", at |-> pc, epoch |-> 0])
    /\ IF ckpt_file = <<>>
       THEN raised' = "OSError" /\ pc' = "failed"
       ELSE raised' = raised /\ pc' = "evaluate"
    /\ UNCHANGED <<model_weights, experiment_id, input_column,
                   selected_columns, n_outputs, weights_path, log_dir,
                   model_path, compile_args, steps, ckpt_file, callbacks,
                   history, effects, exported, StaticRun, otherVars>>

\* line 297: model.load_weights(weights_path), which fails when the file
\* does not exist
LoadBest ==
    /\ pc = "load_best"
    /\ ckpt_io' = Append(ckpt_io,
                      [op |-> "read", at |-> pc, epoch |-> 0])
    /\ IF ckpt_file = <<>>
       THEN raised' = "OSError" /\ model_weights' = model_weights
                /\ pc' = "failed"
       ELSE raised' = raised /\ model_weights' = <<ckpt_file[1]>>
                /\ pc' = "evaluate"
    /\ UNCHANGED <<experiment_id, input_column, selected_columns, n_outputs,
                   weights_path, log_dir, model_path, compile_args, steps,
                   ckpt_file, callbacks, history, effects, exported,
                   StaticRun, otherVars>>

\* lines 299-308: the optional diagnostics and evaluation of the model
Evaluate ==
    /\ pc = "evaluate"
    /\ model_path' = ModelPath(experiment_id)
    /\ effects' = effects
                      \o (IF args.debug THEN <<"plot_predictions">> ELSE <<>>)
                      \o (IF args.silent_mode THEN <<>>
                          ELSE <<"predict_complete_dataframe",
                                 "evaluate_performance">>)
    /\ pc' = "save_model"
    /\ UNCHANGED <<raised, experiment_id, input_column, selected_columns,
                   n_outputs, weights_path, log_dir, compile_args, steps,
                   model_weights, ckpt_file, ckpt_io, callbacks, history,
                   exported, StaticRun, otherVars>>

\* line 310: helpers.save_model(model, model_path)
SaveModel ==
    /\ pc = "save_model"
    /\ exported' = <<[path |-> model_path, weights |-> model_weights[1]]>>
    /\ effects' = Append(effects, "save_model")
    /\ pc' = "done"
    /\ UNCHANGED <<raised, experiment_id, input_column, selected_columns,
                   n_outputs, weights_path, log_dir, model_path, compile_args,
                   steps, model_weights, ckpt_file, ckpt_io, callbacks,
                   history, StaticRun, otherVars>>

Next ==
    \/ Configure \/ ValidateDevice \/ ResolveInput \/ ShuffleSplit
    \/ BuildModel \/ Compile \/ Generate \/ FitBegin \/ FitEpoch \/ FitEnd
    \/ LoadBest \/ Evaluate \/ SaveModel

Spec == Init /\ [][Next]_vars

SpecConfig == InitConfig /\ [][Next]_vars

SpecSteps == InitSteps /\ [][Next]_vars

-----------------------------------------------------------------------------
(* Properties of train_imt_predictor *)

Did(effect) == \E i \in DOMAIN effects : effects[i] = effect

\* the earliest epoch whose validation loss is the lowest of the run
EarliestBest(h) ==
    CHOOSE e \in DOMAIN h :
        /\ \A j \in DOMAIN h : h[e] <= h[j]
        /\ \A j \in 1..(e - 1) : h[j] > h[e]

\* C1: a training run in which at least one epoch completed exports the
\* weights of the epoch with the lowest validation loss of that run, the
\* earliest on a tie, whatever the losses and whether or not an older
\* checkpoint was loaded first; such a run does not fail at the reload.
C1_ExportsBestEpoch ==
    (args.train /\ history # <<>>) =>
        /\ raised = "none"
        /\ pc = "done" =>
              exported[1].weights = EpochWeights(EarliestBest(history))

\* a resumed run of three epochs whose second epoch is the best and whose
\* last epoch is worse
C1_Witness ==
    /\ pc = "done"
    /\ args.train /\ args.resume_training /\ env.checkpoint # <<>>
    /\ Len(history) = 3
    /\ history[2] < history[1] /\ history[3] > history[2]
    /\ exported[1].weights = EpochWeights(2)

BeforeDeviceCheck == pc \in {"configure", "validate_device"}
BeforeInputCheck == BeforeDeviceCheck \/ pc = "resolve_input"

\* C2: the run raises SystemError exactly when a GPU is required and the
\* device is not the GPU, NotImplementedError exactly when the input type
\* is none of img, mask, img_and_mask; any other failure comes from a
\* framework call; after either of the two nothing was shuffled, split,
\* built, compiled, created or written.
C2_FatalChecksComeFirst ==
    /\ raised \in {"none", "SystemError", "NotImplementedError", "OSError"}
    /\ raised = "OSError" => (pc = "failed" /\ ckpt_file = <<>> /\ Did("makedirs"))
    /\ ~BeforeDeviceCheck =>
          (raised = "SystemError"
              <=> (env.force_gpu /\ env.device_name # GpuDevice))
    /\ (~BeforeInputCheck /\ raised # "SystemError") =>
          (raised = "NotImplementedError"
              <=> args.input_type \notin {S_img, S_mask, S_img_and_mask})
    /\ raised \in {"SystemError", "NotImplementedError"} =>
          /\ pc = "failed"
          /\ effects = <<"load_data">>
          /\ model_weights = <<>> /\ compile_args = NoCompileArgs
          /\ ckpt_file = env.checkpoint /\ ckpt_io = <<>>
          /\ weights_path = <<>> /\ log_dir = <<>> /\ model_path = <<>>
          /\ exported = <<>>

\* a run asked to resume from an existing checkpoint, with the GPU in
\* place, that stops at an unknown input type
C2_Witness ==
    /\ pc = "failed" /\ raised = "NotImplementedError"
    /\ env.force_gpu /\ env.device_name = GpuDevice
    /\ args.train /\ args.resume_training /\ env.checkpoint # <<>>

StripPrefix(s, prefix) ==
    IF StartsWith(s, prefix) THEN SubSeq(s, Len(prefix) + 1, Len(s)) ELSE s

PrefixStrippedNames ==
    [i \in DOMAIN EnabledKeys(target_columns) |->
        StripPrefix(EnabledKeys(target_columns)[i], S_imt_)]

S_example_id ==
    <<"e", "x", "p", "_", "C", "C", "A", "_", "i", "m", "g", "_", "5", "1",
      "2", "_", "m", "a", "x", "_", "p", "l", "a", "q", "u", "e">>

\* C5: the experiment id is <prefix>_<database>_<input_type>_<resolution>_
\* <names>, the names being those of the enabled targets in declaration
\* order, each with its imt_ prefix stripped, joined by _; the example
\* configuration gives exp_CCA_img_512_max_plaque; the checkpoint, log and
\* model paths are built from this id.
C5_ExperimentIdFormat ==
    /\ experiment_id # <<>> =>
          /\ experiment_id =
                args.prefix \o S_underscore \o args.database \o S_underscore
                    \o args.input_type \o S_underscore
                    \o IntToStr(args.input_shape[1]) \o S_underscore
                    \o Join(S_underscore, PrefixStrippedNames)
          /\ (/\ target_columns = DefaultTargets
              /\ args.prefix = S_exp /\ args.database = S_CCA
              /\ args.input_type = S_img /\ args.input_shape[1] = 512)
                => experiment_id = S_example_id
    /\ weights_path # <<>> =>
          weights_path = S_weights_ \o experiment_id \o S_h5
    /\ log_dir # <<>> => log_dir = S_run_ \o experiment_id \o S_h5
    /\ model_path # <<>> => model_path = S_model_ \o experiment_id \o S_h5

PlaqueEnabled ==
    \E i \in EnabledPositions : target_columns[i].key = S_plaque

\* C6: the losses and the loss weights handed to model.compile hold one
\* entry per enabled target, in declaration order, as many as n_outputs
\* and as the gt_<name> columns; recall and accuracy are attached exactly
\* when a target named plaque is enabled, and to that head only.
C6_CompileListsFollowEnabledTargets ==
    Did("compile") =>
        /\ Len(compile_args.losses) = n_outputs
        /\ Len(compile_args.loss_weights) = n_outputs
        /\ Len(selected_columns) = n_outputs
        /\ n_outputs = Cardinality(EnabledPositions)
        /\ \A i \in EnabledPositions :
              /\ compile_args.losses[Rank(i) + 1]
                    = target_columns[i].value.loss
              /\ compile_args.loss_weights[Rank(i) + 1]
                    = target_columns[i].value.weight
              /\ selected_columns[Rank(i) + 1]
                    = S_gt_ \o target_columns[i].key
        /\ DOMAIN compile_args.metrics
              = (IF PlaqueEnabled THEN {S_plaque} ELSE {})
        /\ PlaqueEnabled =>
              compile_args.metrics[S_plaque] = <<"Recall(recall)", "accuracy">>

\* a compiled run whose target spec declares plaque first and disabled,
\* followed by two enabled targets
C6_Witness ==
    /\ Did("compile")
    /\ Len(target_columns) = 3
    /\ target_columns[1].key = S_plaque
    /\ EnabledPositions = {2, 3}

Writes == {i \in DOMAIN ckpt_io : ckpt_io[i].op = "write"}
ReadsAt(where) ==
    {i \in DOMAIN ckpt_io : ckpt_io[i].op = "read" /\ ckpt_io[i].at = where}

ImprovingEpochs ==
    {e \in DOMAIN history : \A j \in 1..(e - 1) : history[e] < history[j]}

LastWrite == CHOOSE i \in Writes : \A j \in Writes : j <= i

AfterReload ==
    pc \in {"evaluate", "save_model", "done"}
        \/ (pc = "failed" /\ raised = "OSError")

\* C7: within a run the checkpoint file is written only inside fit, at
\* the end of an epoch whose validation loss improves on the best of the
\* run so far; no other step changes it and a run with train false never
\* writes it; it is loaded at most once before fit, only when resuming and
\* the file exists, and exactly once after fit.
C7_CheckpointWrittenOnlyOnImprovement ==
    /\ \A i \in Writes :
          /\ ckpt_io[i].at = "fit"
          /\ ckpt_io[i].epoch \in ImprovingEpochs
          /\ \A j \in Writes : i < j => ckpt_io[i].epoch < ckpt_io[j].epoch
    /\ ckpt_file = (IF Writes = {} THEN env.checkpoint
                    ELSE <<EpochWeights(ckpt_io[LastWrite].epoch)>>)
    /\ ~args.train => Writes = {}
    /\ \A i \in DOMAIN ckpt_io :
          ckpt_io[i].op = "read" =>
              ckpt_io[i].at \in {"build_model", "load_best"}
    /\ Cardinality(ReadsAt("build_model")) <= 1
    /\ ReadsAt("build_model") # {} =>
          (args.resume_training /\ env.checkpoint # <<>>
              /\ ReadsAt("build_model") = {1})
    /\ Cardinality(ReadsAt("load_best")) = (IF AfterReload THEN 1 ELSE 0)
    /\ \A i \in ReadsAt("load_best") : i = Len(ckpt_io)

\* a resumed training run that is over, in which the checkpoint was
\* written after the first two epochs and not after the third
C7_Witness ==
    /\ pc = "done"
    /\ args.train
    /\ ReadsAt("build_model") # {}
    /\ Len(history) = 3
    /\ {ckpt_io[i].epoch : i \in Writes} = {1, 2}

TrainingSteps == steps[1].TRAINING_STEPS
ValidationSteps == steps[1].VALIDATION_STEPS

====
